---------------------------- MODULE Spec2Model ----------------------------
(***************************************************************************)
(* Model of covid19_datasets/uk_area_stats.py: the England/Wales and       *)
(* Scotland reshapers, the backfill normaliser and the class-level cache   *)
(* of UKCovid19Data.                                                       *)
(*                                                                         *)
(* Representation.                                                         *)
(*  - A calendar day is an integer (day number); pd.date_range(a, b,       *)
(*    freq='D') is the interval a..b.                                      *)
(*  - A float cell is an exact rational <<n, d>> in lowest terms, d > 0;   *)
(*    NaN is <<0, 0>>.  Rationals are needed because pivot_table           *)
(*    aggregates with the mean.                                            *)
(*  - A DataFrame is [kind |-> "frame", index, columns, data]: index and   *)
(*    columns are the label sequences in order, data maps <<row label,     *)
(*    column label>> to a cell.  Labels are unique within a frame.         *)
(*  - Python None is the record None; a raised exception is Error.         *)
(***************************************************************************)
EXTENDS Integers, Sequences, FiniteSets

VARIABLES
    england_cases_data,   \* UKCovid19Data.england_cases_data
    wales_cases_data,     \* UKCovid19Data.wales_cases_data
    wales_tests_data,     \* UKCovid19Data.wales_tests_data
    scotland_cases_data,  \* UKCovid19Data.scotland_cases_data
    england_area_type,    \* UKCovid19Data.england_area_type ("unset" until first assigned)
    england_source_type,  \* area type passed to the load that produced england_cases_data
    wales_source_type,    \* area type passed to the load that produced wales_cases_data
    instances,            \* TRUE once some constructor call has returned normally
    call,                 \* the most recent public call, its arguments, loads and outcome
    fn, arg, ret, pc      \* a single call of one of the module-level functions

vars == <<england_cases_data, wales_cases_data, wales_tests_data,
          scotland_cases_data, england_area_type, england_source_type,
          wales_source_type, instances, call, fn, arg, ret, pc>>

cache == <<england_cases_data, wales_cases_data, wales_tests_data,
           scotland_cases_data, england_area_type>>

(***************************************************************************)
(* Bounds                                                                  *)
(***************************************************************************)
MaxDate == 3     \* England/Wales feed and backfill inputs use days 1..MaxDate
MaxRows == 2     \* rows of a generated England/Wales feed
ScotDays == 4    \* Scotland feed uses days 1..ScotDays

(***************************************************************************)
(* Python values                                                           *)
(***************************************************************************)
None == [kind |-> "None"]
Error == [kind |-> "Error"]

ENGLAND_UPPER_TIER_AUTHORITY == "utla"
ENGLAND_LOWER_TIER_AUTHORITY == "ltla"
AreaTypes == {ENGLAND_UPPER_TIER_AUTHORITY, ENGLAND_LOWER_TIER_AUTHORITY}

(***************************************************************************)
(* Float cells                                                             *)
(***************************************************************************)
NaN == <<0, 0>>
Float(n) == <<n, 1>>

Abs(n) == IF n < 0 THEN 0 - n ELSE n

RECURSIVE GCD(_, _)
GCD(a, b) == IF b = 0 THEN a ELSE GCD(b, a % b)

\* n/d in lowest terms, d > 0
Ratio(n, d) == LET g == GCD(Abs(n), d) IN <<n \div g, d \div g>>

isnan(v) == v[2] = 0

\* float subtraction; NaN propagates
FloatSub(a, b) ==
    IF isnan(a) \/ isnan(b) THEN NaN
    ELSE Ratio(a[1] * b[2] - b[1] * a[2], a[2] * b[2])

RECURSIVE SeqSum(_)
SeqSum(s) == IF s = <<>> THEN 0 ELSE Head(s) + SeqSum(Tail(s))

\* aggfunc='mean' over the counts of one (area, date) group; empty group -> NaN
mean(counts) ==
    IF counts = <<>> THEN NaN ELSE Ratio(SeqSum(counts), Len(counts))

(***************************************************************************)
(* Label sequences                                                         *)
(***************************************************************************)
Range(s) == {s[i] : i \in 1..Len(s)}

SetMin(S) == CHOOSE m \in S : \A x \in S : m <= x
SetMax(S) == CHOOSE m \in S : \A x \in S : x <= m

RECURSIVE SortedSeq(_)
SortedSeq(S) ==
    IF S = {} THEN <<>>
    ELSE LET m == SetMin(S) IN <<m>> \o SortedSeq(S \ {m})

RECURSIVE Insert(_, _)
Insert(x, s) ==
    IF s = <<>> THEN <<x>>
    ELSE IF x <= Head(s) THEN <<x>> \o s
    ELSE <<Head(s)>> \o Insert(x, Tail(s))

\* np.sort of a label sequence
RECURSIVE np_sort(_)
np_sort(s) == IF s = <<>> THEN <<>> ELSE Insert(Head(s), np_sort(Tail(s)))

\* date_range with its end taken one day too far
date_range_past_end(lo, hi) == lo..(hi + 1)

\* pd.date_range(lo, hi, freq='D')
date_range(lo, hi) == lo..hi

Frame(idx, cols, d) ==
    [kind |-> "frame", index |-> idx, columns |-> cols, data |-> d]

isframe(x) == x.kind = "frame"

(***************************************************************************)
(* _backfill_missing_data                                                  *)
(***************************************************************************)
\* df.fillna(0.0)
fillna(df) ==
    Frame(df.index, df.columns,
          [k \in DOMAIN df.data |-> IF isnan(df.data[k]) THEN Float(0) ELSE df.data[k]])

\* for missing_day in missing_days: df[missing_day] = 0.0
AddColumns(df, days) ==
    LET cols == df.columns \o days
    IN Frame(df.index, cols,
             [k \in Range(df.index) \X Range(cols) |->
                 IF k \in DOMAIN df.data THEN df.data[k] ELSE Float(0)])

\* df[labels]: column selection in the order of labels
SelectColumns(df, labels) ==
    Frame(df.index, labels,
          [k \in Range(df.index) \X Range(labels) |-> df.data[k]])

_backfill_missing_data(df) ==
    LET df1 == fillna(df)
        all_days == date_range(SetMin(Range(df1.columns)), SetMax(Range(df1.columns)))
        missing_days == SortedSeq(all_days \ Range(df1.columns))
        df2 == AddColumns(df1, missing_days)
    IN SelectColumns(df2, np_sort(df2.columns))

(***************************************************************************)
(* _load_cases_dataset                                                     *)
(***************************************************************************)
\* A feed row is [areaCode |-> <<letter, n>>, areaName, date, newCases].
\* Area names in lexicographic order, as pivot_table sorts its index.
AreaNames == <<"Area A", "Area B", "Area C">>

NameRank(name) == CHOOSE i \in 1..Len(AreaNames) : AreaNames[i] = name

\* country[0]
CountryInitial(country) == IF country = "England" THEN "E" ELSE "W"

\* the newCases of the rows of s with the given area name and date, in order
RECURSIVE SelectSeq2(_, _, _)
SelectSeq2(s, name, date) ==
    IF s = <<>> THEN <<>>
    ELSE LET rest == SelectSeq2(Tail(s), name, date)
         IN IF Head(s).areaName = name /\ Head(s).date = date
            THEN <<Head(s).newCases>> \o rest ELSE rest

\* df.pivot_table(index=['Country', 'Area name'], columns=DATE_COLUMN_NAME,
\*                values='Daily lab-confirmed cases')   (aggfunc defaults to mean)
pivot_table(rows, country) ==
    LET ranks == SortedSeq({NameRank(rows[i].areaName) : i \in 1..Len(rows)})
        idx == [i \in 1..Len(ranks) |-> <<country, AreaNames[ranks[i]]>>]
        cols == SortedSeq({rows[i].date : i \in 1..Len(rows)})
    IN Frame(idx, cols,
             [k \in Range(idx) \X Range(cols) |-> mean(SelectSeq2(rows, k[1][2], k[2]))])

\* resp is what pd.read_csv(UK_CASES_PATH.replace("TOREPLACE", area_type)) gives:
\* [ok |-> TRUE, csv |-> rows] or [ok |-> FALSE, ...] when the fetch raises.
_load_cases_dataset(area_type, country, resp) ==
    IF ~resp.ok THEN Error
    ELSE LET IsCountry(r) == r.areaCode[1] = CountryInitial(country)
             df == SelectSeq(resp.csv, IsCountry)
         IN IF df = <<>> THEN Error   \* empty pivot: columns.min() is NaT, date_range raises
            ELSE _backfill_missing_data(pivot_table(df, country))

(***************************************************************************)
(* _load_scotland_cases_dataset                                            *)
(***************************************************************************)
\* A Scotland feed is [areas |-> header area names, rows |-> <<[date, cells]>>],
\* a cell being <<"n", count>> or Star.
Star == <<"*", 0>>
Num(n) == <<"n", n>>

\* df.replace('*', 0.0).astype(float)
ToFloat(cell) == IF cell = Star THEN Float(0) ELSE Float(cell[2])

\* for i in range(len(df.columns) - 1, 1, -1):
\*     df.iloc[:, i] = df.iloc[:, i] - df.iloc[:, i-1]
\* vals is one row of the frame, i a 0-based column position
RECURSIVE DeltaLoop(_, _)
DeltaLoop(vals, i) ==
    IF i <= 1 THEN vals
    ELSE DeltaLoop([vals EXCEPT ![i + 1] = FloatSub(vals[i + 1], vals[i])], i - 1)

_load_scotland_cases_dataset(resp) ==
    IF ~resp.ok THEN Error
    ELSE LET csv == resp.csv
             n == Len(csv.rows)
             cols == [j \in 1..n |-> csv.rows[j].date]
             idx == [a \in 1..Len(csv.areas) |-> <<"Scotland", csv.areas[a]>>]
             raw(a) == [j \in 1..n |-> ToFloat(csv.rows[j].cells[a])]
             daily == [a \in 1..Len(csv.areas) |-> DeltaLoop(raw(a), n - 1)]
             pos(c) == CHOOSE j \in 1..n : cols[j] = c
             row(r) == CHOOSE a \in 1..Len(idx) : idx[a] = r
         IN Frame(idx, cols,
                  [k \in Range(idx) \X Range(cols) |-> daily[row(k[1])][pos(k[2])]])

(***************************************************************************)
(* UKCovid19Data.get_cases_data                                            *)
(***************************************************************************)
\* pd.concat([england, wales, scotland]) followed by fillna(0.0).  concat drops
\* None entries, stacks the rows in argument order and takes the union of the
\* date columns (a sorted DatetimeIndex union); cells a frame lacks are NaN.
concat(objs) ==
    LET frames == SelectSeq(objs, isframe)
        RECURSIVE Rows(_)
        Rows(fs) == IF fs = <<>> THEN <<>> ELSE Head(fs).index \o Rows(Tail(fs))
        idx == Rows(frames)
        cols == SortedSeq(UNION {Range(frames[i].columns) : i \in 1..Len(frames)})
        owner(r) == CHOOSE i \in 1..Len(frames) : r \in Range(frames[i].index)
    IN Frame(idx, cols,
             [k \in Range(idx) \X Range(cols) |->
                 IF k \in DOMAIN frames[owner(k[1])].data
                 THEN frames[owner(k[1])].data[k] ELSE NaN])

\* get_cases_data without its fillna(0.0)
get_cases_data_no_fillna(england, wales, scotland) ==
    concat(<<england, wales, scotland>>)

get_cases_data(england, wales, scotland) ==
    fillna(concat(<<england, wales, scotland>>))

(***************************************************************************)
(* What the remote endpoints may return                                    *)
(***************************************************************************)
Row(letter, n, name, date, new) ==
    [areaCode |-> <<letter, n>>, areaName |-> name, date |-> date, newCases |-> new]

Fetched(csv) == [ok |-> TRUE, csv |-> csv]

\* read_csv raising (network failure, HTTP error, malformed body)
FetchFailed == [ok |-> FALSE]

\* Responses of the England/Wales endpoint seen by the provider.  The second
\* has a day without rows; the third has no England rows at all.
MainUKFeeds ==
    { << Row("E", 1, "Area A", 1, 4), Row("W", 1, "Area C", 1, 8) >>,
      << Row("E", 1, "Area A", 1, 4), Row("E", 2, "Area B", 3, 8),
         Row("W", 1, "Area C", 2, 4) >>,
      << Row("W", 1, "Area C", 3, 8) >> }

UKResponses == {Fetched(f) : f \in MainUKFeeds} \cup {FetchFailed}

\* Responses of the Scotland endpoint seen by the provider.
MainScotlandFeeds ==
    { [areas |-> <<"Fife">>,
       rows |-> << [date |-> 1, cells |-> <<Num(10)>>],
                   [date |-> 2, cells |-> <<Num(15)>>] >>],
      [areas |-> <<"Fife", "Lothian">>,
       rows |-> << [date |-> 2, cells |-> <<Num(10), Star>>],
                   [date |-> 4, cells |-> <<Num(15), Num(3)>>] >>] }

ScotlandResponses == {Fetched(f) : f \in MainScotlandFeeds} \cup {FetchFailed}

(***************************************************************************)
(* UKCovid19Data                                                           *)
(***************************************************************************)
NoCall ==
    [op |-> "none", force_load |-> FALSE, england_area_type |-> "unset",
     loads |-> <<>>, raised |-> FALSE, ret |-> None]

ProviderInit ==
    /\ england_cases_data = None
    /\ wales_cases_data = None
    /\ wales_tests_data = None
    /\ scotland_cases_data = None
    /\ england_area_type = "unset"
    /\ england_source_type = "unset"
    /\ wales_source_type = "unset"
    /\ instances = FALSE
    /\ call = NoCall

FnIdle == fn = "none" /\ arg = None /\ ret = None /\ pc = "idle"

Init == ProviderInit /\ FnIdle

\* the England condition without the area-type comparison
EnglandStale_no_type_check(force_load, area_type) ==
    england_cases_data = None \/ force_load

\* line 102
EnglandStale(force_load, area_type) ==
    england_cases_data = None \/ force_load \/ england_area_type # area_type

\* line 106
WalesStale(force_load) ==
    wales_cases_data = None \/ wales_tests_data = None \/ force_load

\* line 109
ScotlandStale(force_load) ==
    scotland_cases_data = None \/ force_load

Load(nation, returned) == [nation |-> nation, returned |-> returned]

\* the return value of each load for each response, tabulated
LoadCases ==
    [area_type \in AreaTypes, country \in {"England", "Wales"}, resp \in UKResponses |->
        _load_cases_dataset(area_type, country, resp)]

LoadScotland ==
    [resp \in ScotlandResponses |-> _load_scotland_cases_dataset(resp)]

\* UKCovid19Data.__init__; respE, respW, respS are what read_csv gives to the
\* England, Wales and Scotland loads if they run.  An Error return is the load
\* raising, which ends the constructor there.
__init__(force_load, area_type, respE, respW, respS) ==
    LET needE == EnglandStale(force_load, area_type)
        retE == LoadCases[area_type, "England", respE]
        raisedE == needE /\ ~isframe(retE)
        needW == ~raisedE /\ WalesStale(force_load)
        retW == LoadCases[area_type, "Wales", respW]
        raisedW == needW /\ ~isframe(retW)
        needS == ~raisedE /\ ~raisedW /\ ScotlandStale(force_load)
        retS == LoadScotland[respS]
        raisedS == needS /\ ~isframe(retS)
    IN /\ england_area_type' = IF needE THEN area_type ELSE england_area_type
       /\ england_cases_data' = IF needE /\ ~raisedE THEN retE ELSE england_cases_data
       /\ england_source_type' = IF needE /\ ~raisedE THEN area_type ELSE england_source_type
       /\ wales_cases_data' = IF needW /\ ~raisedW THEN retW ELSE wales_cases_data
       /\ wales_source_type' = IF needW /\ ~raisedW THEN area_type ELSE wales_source_type
       /\ scotland_cases_data' = IF needS /\ ~raisedS THEN retS ELSE scotland_cases_data
       /\ instances' = (instances \/ ~(raisedE \/ raisedW \/ raisedS))
       /\ call' = [op |-> "__init__", force_load |-> force_load,
                   england_area_type |-> area_type,
                   loads |-> (IF needE THEN <<Load("England", retE)>> ELSE <<>>)
                             \o (IF needW THEN <<Load("Wales", retW)>> ELSE <<>>)
                             \o (IF needS THEN <<Load("Scotland", retS)>> ELSE <<>>),
                   raised |-> (raisedE \/ raisedW \/ raisedS),
                   ret |-> None]
       /\ UNCHANGED <<wales_tests_data, fn, arg, ret, pc>>

Construct ==
    \E force_load \in BOOLEAN, area_type \in AreaTypes,
       respE \in UKResponses, respW \in UKResponses, respS \in ScotlandResponses :
        __init__(force_load, area_type, respE, respW, respS)

\* get_cases_data reconciling the columns of the cached England frame in place
GetCasesData_in_place ==
    LET df == get_cases_data(england_cases_data, wales_cases_data, scotland_cases_data)
    IN /\ instances
       /\ call' = [NoCall EXCEPT !.op = "get_cases_data", !.ret = df]
       /\ england_cases_data' =
              Frame(england_cases_data.index, df.columns,
                    [k \in Range(england_cases_data.index) \X Range(df.columns) |-> df.data[k]])
       /\ UNCHANGED <<wales_cases_data, wales_tests_data,
                      scotland_cases_data, england_area_type, england_source_type,
                      wales_source_type, instances, fn, arg, ret, pc>>

\* UKCovid19Data.get_cases_data, called on an instance some constructor returned
GetCasesData ==
    /\ instances
    /\ call' = [NoCall EXCEPT !.op = "get_cases_data",
                              !.ret = get_cases_data(england_cases_data,
                                                     wales_cases_data,
                                                     scotland_cases_data)]
    /\ UNCHANGED <<england_cases_data, wales_cases_data, wales_tests_data,
                   scotland_cases_data, england_area_type, england_source_type,
                   wales_source_type, instances, fn, arg, ret, pc>>

Next == Construct \/ GetCasesData

Spec == Init /\ [][Next]_vars

(***************************************************************************)
(* One call of a module-level function on a generated input                *)
(***************************************************************************)
SeqsUpTo(S, n) == UNION {[1..k -> S] : k \in 0..n}

\* the areas an England/Wales feed may report: <<code letter, code number, name>>
UKAreas == {<<"E", 1, "Area A">>, <<"E", 2, "Area B">>, <<"W", 1, "Area C">>}

Counts == {4, 8}

UKRowDomain(maxDate) ==
    {Row(a[1], a[2], a[3], d, c) : a \in UKAreas, d \in 1..maxDate, c \in Counts}

\* every England/Wales feed of at most maxRows rows, and the failed fetch
UKFeedInputs(maxDate, maxRows) ==
    {Fetched(f) : f \in SeqsUpTo(UKRowDomain(maxDate), maxRows)} \cup {FetchFailed}

\* every Scotland feed over two health boards whose dates ascend within
\* 1..days (days may be skipped), and the failed fetch
FifeCells == {Star, Num(10), Num(15), Num(20)}
LothianCells == {Star, Num(3)}

ScotlandFeedInputs(days) ==
    {Fetched([areas |-> <<"Fife", "Lothian">>,
              rows |-> [j \in 1..Len(t[2]) |->
                           [date |-> SortedSeq(t[1])[j], cells |-> <<t[2][j], t[3][j]>>]]]) :
        t \in
            {t \in (SUBSET (1..days)) \X SeqsUpTo(FifeCells, days)
                                      \X SeqsUpTo(LothianCells, days) :
                Len(t[2]) = Cardinality(t[1]) /\ Len(t[3]) = Cardinality(t[1])}}
    \cup {FetchFailed}

\* every frame of one or two areas whose date columns are distinct days of
\* 1..maxDate in any order, each cell NaN or 7.0
DistinctSeqs(S) ==
    {q \in SeqsUpTo(S, Cardinality(S)) :
        q # <<>> /\ \A i, j \in 1..Len(q) : i # j => q[i] # q[j]}

BackfillInputs(maxDate) ==
    UNION {
        {Frame(idx, cols, d) : d \in [Range(idx) \X Range(cols) -> {NaN, Float(7)}]} :
        <<idx, cols>> \in
            {<< <<"England", "Area A">> >>,
             << <<"England", "Area A">>, <<"England", "Area B">> >>}
            \X DistinctSeqs(1..maxDate)}

InitFn ==
    /\ ProviderInit
    /\ pc = "call"
    /\ ret = None
    /\ \/ fn = "_backfill_missing_data" /\ arg \in BackfillInputs(MaxDate)
       \/ /\ fn = "_load_cases_dataset"
          /\ arg \in {[area_type |-> ENGLAND_UPPER_TIER_AUTHORITY, country |-> c, resp |-> r] :
                         c \in {"England", "Wales"}, r \in UKFeedInputs(MaxDate, MaxRows)}
       \/ fn = "_load_scotland_cases_dataset" /\ arg \in ScotlandFeedInputs(ScotDays)

ProviderUnchanged ==
    UNCHANGED <<england_cases_data, wales_cases_data, wales_tests_data,
                scotland_cases_data, england_area_type, england_source_type,
                wales_source_type, instances, call>>

CallBackfill ==
    /\ pc = "call" /\ fn = "_backfill_missing_data"
    /\ ret' = _backfill_missing_data(arg)
    /\ pc' = "returned"
    /\ UNCHANGED <<fn, arg>> /\ ProviderUnchanged

\* the normaliser run again on its own output
CallBackfillAgain ==
    /\ pc = "returned" /\ fn = "_backfill_missing_data"
    /\ ret' = _backfill_missing_data(ret)
    /\ pc' = "reapplied"
    /\ UNCHANGED <<fn, arg>> /\ ProviderUnchanged

CallLoadCases ==
    /\ pc = "call" /\ fn = "_load_cases_dataset"
    /\ ret' = _load_cases_dataset(arg.area_type, arg.country, arg.resp)
    /\ pc' = "returned"
    /\ UNCHANGED <<fn, arg>> /\ ProviderUnchanged

CallLoadScotland ==
    /\ pc = "call" /\ fn = "_load_scotland_cases_dataset"
    /\ ret' = _load_scotland_cases_dataset(arg)
    /\ pc' = "returned"
    /\ UNCHANGED <<fn, arg>> /\ ProviderUnchanged

NextFn == CallBackfill \/ CallBackfillAgain \/ CallLoadCases \/ CallLoadScotland

SpecFn == InitFn /\ [][NextFn]_vars

(***************************************************************************)
(* Properties                                                              *)
(***************************************************************************)
Cached ==
    /\ isframe(england_cases_data)
    /\ isframe(wales_cases_data)
    /\ isframe(scotland_cases_data)

Nations(loads) == [i \in 1..Len(loads) |-> loads[i].nation]

ReturnedBy(loads, nation) ==
    loads[CHOOSE i \in 1..Len(loads) : loads[i].nation = nation].returned

\* C1: a construction that directly follows a successful construction with the
\* same area type, has force_load = FALSE and returns normally has run none of
\* the three loads and leaves the three cached matrices as they were.
C1_CacheReuse ==
    [][(/\ call.op = "__init__" /\ ~call.raised
        /\ call'.op = "__init__" /\ ~call'.force_load /\ ~call'.raised
        /\ call'.england_area_type = call.england_area_type)
       => /\ call'.loads = <<>>
          /\ england_cases_data' = england_cases_data
          /\ wales_cases_data' = wales_cases_data
          /\ scotland_cases_data' = scotland_cases_data]_vars

\* A construction has just returned normally, having been called with
\* force_load = TRUE or with an area type other than the cached one.
InvalidatingConstruction ==
    /\ call'.op = "__init__" /\ ~call'.raised
    /\ \/ call'.force_load
       \/ england_area_type \in AreaTypes /\ call'.england_area_type # england_area_type

\* C2 (as stated): every construction with force_load = TRUE or with an area
\* type other than the cached one runs the England, Wales and Scotland loads
\* and stores what each returned.
C2_ReloadsAllThree ==
    [][InvalidatingConstruction
       => /\ Nations(call'.loads) = <<"England", "Wales", "Scotland">>
          /\ england_cases_data' = ReturnedBy(call'.loads, "England")
          /\ wales_cases_data' = ReturnedBy(call'.loads, "Wales")
          /\ scotland_cases_data' = ReturnedBy(call'.loads, "Scotland")]_vars

\* C2 (amended): such a construction, when it returns normally, has run the
\* England and Wales loads and stored what they returned; the Scotland load
\* has run, and its return value been stored, exactly when force_load is TRUE
\* or no Scotland matrix was cached, and otherwise the Scotland matrix is kept.
C2_ReloadsAffected ==
    [][InvalidatingConstruction
       => /\ Nations(call'.loads) =
                 IF call'.force_load \/ scotland_cases_data = None
                 THEN <<"England", "Wales", "Scotland">> ELSE <<"England", "Wales">>
          /\ england_cases_data' = ReturnedBy(call'.loads, "England")
          /\ wales_cases_data' = ReturnedBy(call'.loads, "Wales")
          /\ scotland_cases_data' =
                 IF call'.force_load \/ scotland_cases_data = None
                 THEN ReturnedBy(call'.loads, "Scotland") ELSE scotland_cases_data]_vars

\* C2 witness: a construction with a changed area type and force_load = FALSE
\* has returned, having reloaded England and Wales and kept Scotland.
C2_Witness ==
    /\ call.op = "__init__" /\ ~call.raised /\ ~call.force_load
    /\ Nations(call.loads) = <<"England", "Wales">>
    /\ Cached
    /\ england_source_type = call.england_area_type

\* C3: a get_cases_data step leaves the three cached matrices, wales_tests_data
\* and the cached area type as they were, and a read that directly follows a
\* read returns the same table.
C3_ReadLeavesCache ==
    [][call'.op = "get_cases_data"
       => /\ cache' = cache
          /\ call.op = "get_cases_data" => call'.ret = call.ret]_vars

\* C3 witness: a read has returned a table.
C3_Witness ==
    /\ call.op = "get_cases_data"
    /\ isframe(call.ret)
    /\ Cached

Contiguous(df) ==
    \A d \in SetMin(Range(df.columns))..SetMax(Range(df.columns)) :
        d \in Range(df.columns)

\* C4: every frame a reshaper returns has every day between its first and
\* last date column as a column.
C4_Completeness ==
    (/\ pc = "returned"
     /\ fn \in {"_load_cases_dataset", "_load_scotland_cases_dataset"}
     /\ isframe(ret)
     /\ ret.columns # <<>>)
    => Contiguous(ret)

\* C5: the normaliser applied to its own output gives that output again
\* (same rows, same columns in the same order, same cells).
C5_BackfillIdempotent ==
    (fn = "_backfill_missing_data" /\ pc = "reapplied")
    => ret = _backfill_missing_data(arg)

\* C5 witness: the normaliser has been run twice on a frame that had a NaN
\* cell, a missing day and unsorted columns.
C5_Witness ==
    /\ fn = "_backfill_missing_data" /\ pc = "reapplied"
    /\ \E k \in DOMAIN arg.data : isnan(arg.data[k])
    /\ Len(ret.columns) > Len(arg.columns)
    /\ arg.columns # np_sort(arg.columns)

\* C6: in the Scotland frame every column after the first holds the source's
\* cumulative value of that column minus that of the column before, and the
\* first column holds its cumulative value; so [10, 15, 15, 20] becomes
\* [10, 5, 0, 5].
C6_ScotlandDaily ==
    (pc = "returned" /\ fn = "_load_scotland_cases_dataset" /\ isframe(ret))
    => LET rows == arg.csv.rows
           areas == arg.csv.areas
       IN \A a \in 1..Len(areas), i \in 1..Len(rows) :
              ret.data[<< <<"Scotland", areas[a]>>, rows[i].date >>] =
                  IF i = 1 THEN ToFloat(rows[1].cells[a])
                  ELSE FloatSub(ToFloat(rows[i].cells[a]), ToFloat(rows[i - 1].cells[a]))

\* C7: the table a read returned has the rows of the England, Wales and
\* Scotland matrices in that order, the union of their date columns as its
\* columns, each nation's own cells with their values, and 0.0 in every cell
\* of a date that nation's matrix does not have.
C7_UnifiedDataset ==
    call.op = "get_cases_data"
    => LET df == call.ret
           nations == <<england_cases_data, wales_cases_data, scotland_cases_data>>
       IN /\ df.index = england_cases_data.index \o wales_cases_data.index
                            \o scotland_cases_data.index
          /\ Range(df.columns) = UNION {Range(nations[i].columns) : i \in 1..3}
          /\ \A i \in 1..3 : \A r \in Range(nations[i].index) : \A c \in Range(df.columns) :
                 df.data[<<r, c>>] =
                     IF c \in Range(nations[i].columns)
                     THEN nations[i].data[<<r, c>>] ELSE Float(0)

\* C7 witness: a read has returned a table with a date England lacks and a
\* date Scotland lacks.
C7_Witness ==
    /\ call.op = "get_cases_data"
    /\ \E c \in Range(call.ret.columns) : c \notin Range(england_cases_data.columns)
    /\ \E c \in Range(call.ret.columns) : c \notin Range(scotland_cases_data.columns)

\* C8: where the feed has two rows of the country with the same area name and
\* date and different counts, the England/Wales load either raises or gives
\* the cell the count of one of those rows.
C8_PivotCollision ==
    (pc = "returned" /\ fn = "_load_cases_dataset" /\ isframe(ret))
    => \A k \in DOMAIN ret.data :
           LET csv == arg.resp.csv
               group == {i \in 1..Len(csv) :
                            /\ csv[i].areaCode[1] = CountryInitial(arg.country)
                            /\ csv[i].areaName = k[1][2]
                            /\ csv[i].date = k[2]}
           IN (\E i, j \in group : csv[i].newCases # csv[j].newCases)
              => \E i \in group : ret.data[k] = Float(csv[i].newCases)

\* C9: whenever an England matrix is cached, the cached area type is the area
\* type that matrix was loaded with.
C9_AreaTypeOfCachedEngland ==
    isframe(england_cases_data) => england_area_type = england_source_type

\* C10: after a construction that returned normally all three matrices are
\* cached and the Wales matrix was loaded with the same area type as the
\* England matrix.
C10_CachedAfterConstruction ==
    (call.op = "__init__" /\ ~call.raised)
    => Cached /\ wales_source_type = england_source_type

=============================================================================
